---- MODULE Spec2Model ----
(***************************************************************************)
(* Ride-sharing back end: the ride life cycle (request, accept, complete,  *)
(* cancel) and the payment gate, as implemented by the Django REST views.  *)
(*                                                                         *)
(* Every request runs on its own worker against the shared ride table.     *)
(* A view reads the row into a local model instance, checks it, mutates    *)
(* the instance and calls ride.save(), which writes EVERY column of the    *)
(* instance back (no update_fields is given anywhere in the source).  The  *)
(* read and the save of one request are therefore two separate steps, and  *)
(* other requests may run between them.  Only AcceptRideView wraps its     *)
(* read and save in transaction.atomic() with select_for_update(), which   *)
(* holds the row lock of that ride from the read to the commit.            *)
(***************************************************************************)
EXTENDS Integers, Sequences, FiniteSets, Bags, TLC

\* ---- bounds of the model ------------------------------------------------
MaxRides == 2
\* requests in progress at the same time
NumWorkers == 2
\* requests that get past their checks, ride requests included (the requests
\* that are refused change nothing and are not counted)
MaxAdmitted == 5

\* The clock runs from 0 to MaxTime; a session manager is built with an expiry
\* of at most MaxExpiry seconds.
MaxTime == 4

MaxExpiry == 2

\* ---- principals -----------------------------------------------------------
NULL == "null"
Riders == {"r1", "r2"}
Drivers == {"d1", "d2"}
Users == Riders \cup Drivers

RideIds == 1..MaxRides

\* ---- models.py: Ride ------------------------------------------------------
STATUS_CHOICES == {"REQUESTED", "ONGOING", "COMPLETED", "CANCELLED"}
PAYMENT_STATUS_CHOICES == {"UNPAID", "PAID"}
PAYMENT_METHOD_CHOICES == {"CASH", "CARD", "WALLET"}
Terminal == {"COMPLETED", "CANCELLED"}

\* payment methods a caller may send: two valid ones and one invalid one
MethodInputs == {"CASH", "CARD", "BITCOIN"}

\* A freshly inserted row: field defaults of the Ride model.
NewRide(rider) ==
    [rider |-> rider, driver |-> NULL, status |-> "REQUESTED",
     payment_status |-> "UNPAID", payment_method |-> NULL]

NoCopy == [rider |-> NULL, driver |-> NULL, status |-> NULL,
           payment_status |-> NULL, payment_method |-> NULL]

VARIABLES
    rides,      \* the ride table: sequence of rows, row i has id i
    lock,       \* lock[r]: a transaction holds the row lock of ride r
    inflight,   \* the requests in progress, a bag (the workers are
                \* interchangeable); each is a record of its place (pc), its
                \* arguments, its model instance (copy) and the status it
                \* read (seen)
    last,       \* the response being returned to a caller (NoResponse: none);
                \* seen is the status of the ride the request found, rows
                \* the ride ids a list view returns, in order
    acceptOk,   \* acceptOk[r]: number of AcceptRide calls that returned 200
    cancelOk,   \* cancelOk[r]: number of CancelRide calls that returned 200
    paidOk,     \* paidOk[r]: number of MarkPaid calls that returned 200
    admitted,   \* number of requests that passed their checks so far
    feedback,   \* the RideFeedback table: a bag of rows
    sessions,   \* SessionManager.sessions: session id -> timestamp
    expiry_seconds, \* SessionManager.expiry_seconds (0: not constructed yet)
    now,        \* the clock read by time.time()
    returned    \* the last call of a SessionManager method and its result

\* the variables of the session manager, which no request of the ride
\* service touches
svars == <<sessions, expiry_seconds, now, returned>>

vars == <<rides, lock, inflight, last, acceptOk, cancelOk, paidOk, admitted,
          feedback, svars>>

NoResponse == [op |-> "none", ride |-> 0, user |-> NULL, result |-> "none",
               seen |-> NULL, method |-> NULL, rows |-> << >>]

\* no SessionManager method has been called yet
\* No call of the session manager has returned yet.
NoCall ==
    [op |-> "none", id |-> NULL, sliding |-> FALSE, value |-> NULL, at |-> 0,
     printed |-> NULL, creation_time |-> 0]

Exists(r) == r \in DOMAIN rides

\* Status of ride r in the table now ("NONE" when there is no such row).
StatusOf(r) == IF Exists(r) THEN rides[r].status ELSE "NONE"

\* Counters saturate at 2: the properties distinguish 0, 1 and more.
Bump(n) == IF n < 2 THEN n + 1 ELSE n

\* A request gets past its checks only while the model's budget lasts.
Admit ==
    /\ admitted < MaxAdmitted
    /\ admitted' = admitted + 1

\* No response is on its way out (see SendResponse).
Quiet == last = NoResponse

\* A worker is free to pick up a new request.
Free ==
    /\ Quiet
    /\ BagCardinality(inflight) < NumWorkers

\* The requests in progress.
Requests == BagToSet(inflight)

\* A request starts, ends, or moves on to its next step.
Start(q) == inflight' = inflight (+) SetToBag({q})
Finish(q) == inflight' = inflight (-) SetToBag({q})
Move(q, q2) == inflight' = (inflight (-) SetToBag({q})) (+) SetToBag({q2})

Respond(op, r, u, res, seen, m) ==
    last' = [op |-> op, ride |-> r, user |-> u, result |-> res,
             seen |-> seen, method |-> m, rows |-> << >>]

Init ==
    /\ rides = << >>
    /\ lock = [r \in RideIds |-> FALSE]
    /\ inflight = EmptyBag
    /\ last = NoResponse
    /\ acceptOk = [r \in RideIds |-> 0]
    /\ cancelOk = [r \in RideIds |-> 0]
    /\ paidOk = [r \in RideIds |-> 0]
    /\ admitted = 0
    /\ feedback = EmptyBag
    /\ sessions = << >>
    /\ expiry_seconds = 0
    /\ now = 0
    /\ returned = NoCall

\* ---- permissions.py ----------------------------------------------------------
IsDriverUser(u) == u \in Drivers
IsRiderUser(u) == u \in Riders

\* ---- RideRequestView.perform_create ----------------------------------------
\* Request bodies a caller may send: the addresses, alone or together with
\* a value for a column that the caller is not meant to set.
RideRequestInputs ==
    {[pickup_address |-> "A", dropoff_address |-> "B"],
     [pickup_address |-> "A", dropoff_address |-> "B", status |-> "COMPLETED"],
     [pickup_address |-> "A", dropoff_address |-> "B", driver |-> "d1"],
     [pickup_address |-> "A", dropoff_address |-> "B", rider |-> "r2"]}

RideRequestSerializer_AllFields(d) == d

\* RideRequestSerializer: validated_data holds the writable fields only
\* (rider, driver and status are read-only, other keys are no fields).
RideRequestSerializer(d) ==
    [f \in DOMAIN d \cap {"pickup_address", "dropoff_address", "pickup_lat",
                          "pickup_lng", "dropoff_lat", "dropoff_lng"} |-> d[f]]

\* serializer.save(rider=...): the row built from the validated data, the
\* rider given by the view and the defaults of the model (of the columns
\* that the model keeps).
RideCreate(validated, rider) ==
    [c \in DOMAIN NewRide(rider) |->
        IF c # "rider" /\ c \in DOMAIN validated THEN validated[c]
        ELSE NewRide(rider)[c]]

RideRequest(u) ==
    /\ Quiet
    /\ IsRiderUser(u)
    /\ Len(rides) < MaxRides
    /\ \E d \in RideRequestInputs :
           rides' = Append(rides, RideCreate(RideRequestSerializer(d), u))
    /\ Admit
    /\ Respond("create", Len(rides) + 1, u, "ok", "NONE", NULL)
    /\ UNCHANGED <<lock, inflight, acceptOk, cancelOk, paidOk, feedback, svars>>

\* ---- AcceptRideView.post ------------------------------------------------------
AcceptAvailable_NoCheck(ride) == TRUE

\* Rule 1 of the view, evaluated on the locked row.
AcceptAvailable(ride) == ride.status = "REQUESTED" /\ ride.driver = NULL

AcceptAssign_NoDriver(ride, u) == [ride EXCEPT !.status = "ONGOING"]

\* The instance the view saves: driver and status assigned, the rest as read.
AcceptAssign(ride, u) == [ride EXCEPT !.driver = u, !.status = "ONGOING"]

\* permission_classes run before the handler body.
AcceptRideBegin(r, u) ==
    /\ Free
    /\ IF ~IsDriverUser(u)
       THEN /\ Respond("accept", r, u, "Unauthorized", StatusOf(r), NULL)
            /\ UNCHANGED <<inflight, admitted>>
       ELSE /\ Start([pc |-> "accept_lock", ride |-> r, user |-> u,
                      copy |-> NoCopy, seen |-> NULL])
            /\ Admit
            /\ UNCHANGED last
    /\ UNCHANGED <<rides, lock, acceptOk, cancelOk, paidOk, feedback, svars>>

AcceptRideLock_WriteFirst(q) ==
    LET r == q.ride
        u == q.user
    IN  /\ Quiet
        /\ q.pc = "accept_lock"
        /\ IF ~Exists(r)
           THEN /\ Respond("accept", r, u, "NotFound", "NONE", NULL)
                /\ Finish(q)
                /\ UNCHANGED <<rides, lock>>
           ELSE /\ ~lock[r]
                /\ IF AcceptAvailable(rides[r])
                   THEN /\ lock' = [lock EXCEPT ![r] = TRUE]
                        /\ Move(q, [q EXCEPT !.pc = "accept_save",
                                             !.copy = AcceptAssign(rides[r], u),
                                             !.seen = rides[r].status])
                        /\ UNCHANGED <<rides, last>>
                   ELSE /\ rides' = [rides EXCEPT ![r].driver = u]
                        /\ Respond("accept", r, u, "RideUnavailable",
                                   rides[r].status, NULL)
                        /\ Finish(q)
                        /\ UNCHANGED lock
        /\ UNCHANGED <<acceptOk, cancelOk, paidOk, admitted, feedback, svars>>

AcceptRideLock_TableLock(q) ==
    LET r == q.ride
        u == q.user
    IN  /\ Quiet
        /\ q.pc = "accept_lock"
        /\ IF ~Exists(r)
           THEN /\ Respond("accept", r, u, "NotFound", "NONE", NULL)
                /\ Finish(q)
                /\ UNCHANGED lock
           ELSE /\ \A b \in RideIds : ~lock[b]
                /\ IF AcceptAvailable(rides[r])
                   THEN /\ lock' = [lock EXCEPT ![r] = TRUE]
                        /\ Move(q, [q EXCEPT !.pc = "accept_save",
                                             !.copy = AcceptAssign(rides[r], u),
                                             !.seen = rides[r].status])
                        /\ UNCHANGED last
                   ELSE /\ Respond("accept", r, u, "RideUnavailable",
                                   rides[r].status, NULL)
                        /\ Finish(q)
                        /\ UNCHANGED lock
        /\ UNCHANGED <<rides, acceptOk, cancelOk, paidOk, admitted, feedback, svars>>

\* select_for_update().get(id=id): DoesNotExist, or wait for the row lock,
\* take it, read the row and apply Rule 1.
AcceptRideLock(q) ==
    LET r == q.ride
        u == q.user
    IN  /\ Quiet
        /\ q.pc = "accept_lock"
        /\ IF ~Exists(r)
           THEN /\ Respond("accept", r, u, "NotFound", "NONE", NULL)
                /\ Finish(q)
                /\ UNCHANGED lock
           ELSE /\ ~lock[r]
                /\ IF AcceptAvailable(rides[r])
                   THEN /\ lock' = [lock EXCEPT ![r] = TRUE]
                        /\ Move(q, [q EXCEPT !.pc = "accept_save",
                                             !.copy = AcceptAssign(rides[r], u),
                                             !.seen = rides[r].status])
                        /\ UNCHANGED last
                   ELSE \* the transaction ends without a write
                        /\ Respond("accept", r, u, "RideUnavailable",
                                   rides[r].status, NULL)
                        /\ Finish(q)
                        /\ UNCHANGED lock
        /\ UNCHANGED <<rides, acceptOk, cancelOk, paidOk, admitted, feedback, svars>>

\* ride.save() and the commit that releases the row lock.
AcceptRideSave_KeepLock(q) ==
    LET r == q.ride
    IN  /\ Quiet
        /\ q.pc = "accept_save"
        /\ lock[r]
        /\ rides' = [rides EXCEPT ![r] = q.copy]
        /\ acceptOk' = [acceptOk EXCEPT ![r] = Bump(@)]
        /\ Respond("accept", r, q.user, "ok", q.seen, NULL)
        /\ Finish(q)
        /\ UNCHANGED <<lock, cancelOk, paidOk, admitted, feedback, svars>>

AcceptRideSave(q) ==
    LET r == q.ride
    IN  /\ Quiet
        /\ q.pc = "accept_save"
        /\ lock[r]
        /\ rides' = [rides EXCEPT ![r] = q.copy]
        /\ lock' = [lock EXCEPT ![r] = FALSE]
        /\ acceptOk' = [acceptOk EXCEPT ![r] = Bump(@)]
        /\ Respond("accept", r, q.user, "ok", q.seen, NULL)
        /\ Finish(q)
        /\ UNCHANGED <<cancelOk, paidOk, admitted, feedback, svars>>

\* ---- CompleteRideView.post ----------------------------------------------------
CompleteCheck_StateFirst(ride, u) ==
    IF ~IsDriverUser(u) THEN "Unauthorized"
    ELSE IF ride.status # "ONGOING" THEN "InvalidState"
    ELSE IF ride.driver # u THEN "Unauthorized"
    ELSE "ok"

\* The outcome of the view's checks on the row it read ("ok" = all passed).
CompleteCheck(ride, u) ==
    IF ~IsDriverUser(u) THEN "Unauthorized"
    ELSE IF ride.driver # u THEN "Unauthorized"
    ELSE IF ride.status # "ONGOING" THEN "InvalidState"
    ELSE "ok"

\* Ride.objects.get (no lock) and the checks on the instance.
CompleteRideRead(r, u) ==
    /\ Free
    /\ IF ~Exists(r)
       THEN /\ Respond("complete", r, u, "NotFound", "NONE", NULL)
            /\ UNCHANGED <<inflight, admitted>>
       ELSE IF CompleteCheck(rides[r], u) # "ok"
       THEN /\ Respond("complete", r, u, CompleteCheck(rides[r], u),
                       rides[r].status, NULL)
            /\ UNCHANGED <<inflight, admitted>>
       ELSE /\ Start([pc |-> "complete_save", ride |-> r, user |-> u,
                      copy |-> [rides[r] EXCEPT !.status = "COMPLETED"],
                      seen |-> rides[r].status])
            /\ Admit
            /\ UNCHANGED last
    /\ UNCHANGED <<rides, lock, acceptOk, cancelOk, paidOk, feedback, svars>>

\* ride.save(): an UPDATE of all columns; it waits while another
\* transaction holds the row lock.
CompleteRideSave(q) ==
    LET r == q.ride
    IN  /\ Quiet
        /\ q.pc = "complete_save"
        /\ ~lock[r]
        /\ rides' = [rides EXCEPT ![r] = q.copy]
        /\ Respond("complete", r, q.user, "ok", q.seen, NULL)
        /\ Finish(q)
        /\ UNCHANGED <<lock, acceptOk, cancelOk, paidOk, admitted, feedback, svars>>

\* ---- CancelRideView.post ------------------------------------------------------
CancelCheck_AllowOngoing(ride, u) ==
    IF ride.rider # u THEN "Unauthorized"
    ELSE IF ride.status \in {"COMPLETED", "CANCELLED"} THEN "InvalidState"
    ELSE "ok"

CancelCheck_StateFirst(ride, u) ==
    IF ride.status # "REQUESTED" THEN "InvalidState"
    ELSE IF ride.rider # u THEN "Unauthorized"
    ELSE "ok"

CancelCheck(ride, u) ==
    IF ride.rider # u THEN "Unauthorized"
    ELSE IF ride.status # "REQUESTED" THEN "InvalidState"
    ELSE "ok"

CancelRideRead(r, u) ==
    /\ Free
    /\ IF ~Exists(r)
       THEN /\ Respond("cancel", r, u, "NotFound", "NONE", NULL)
            /\ UNCHANGED <<inflight, admitted>>
       ELSE IF CancelCheck(rides[r], u) # "ok"
       THEN /\ Respond("cancel", r, u, CancelCheck(rides[r], u),
                       rides[r].status, NULL)
            /\ UNCHANGED <<inflight, admitted>>
       ELSE /\ Start([pc |-> "cancel_save", ride |-> r, user |-> u,
                      copy |-> [rides[r] EXCEPT !.status = "CANCELLED"],
                      seen |-> rides[r].status])
            /\ Admit
            /\ UNCHANGED last
    /\ UNCHANGED <<rides, lock, acceptOk, cancelOk, paidOk, feedback, svars>>

CancelRideSave(q) ==
    LET r == q.ride
    IN  /\ Quiet
        /\ q.pc = "cancel_save"
        /\ ~lock[r]
        /\ rides' = [rides EXCEPT ![r] = q.copy]
        /\ cancelOk' = [cancelOk EXCEPT ![r] = Bump(@)]
        /\ Respond("cancel", r, q.user, "ok", q.seen, NULL)
        /\ Finish(q)
        /\ UNCHANGED <<lock, acceptOk, paidOk, admitted, feedback, svars>>

\* ---- MarkAsPaidView.post ------------------------------------------------------
\* Security rule of the view: the caller is the ride's rider or its driver.
PayAuthorized(ride, u) ==
    \/ ride.rider = u
    \/ (ride.driver # NULL /\ ride.driver = u)

PaymentSerializerValid_Any(m) == TRUE

\* RidePaymentSerializer.is_valid: ChoiceField over PAYMENT_METHOD_CHOICES.
PaymentSerializerValid(m) == m \in PAYMENT_METHOD_CHOICES

MarkAsPaidCheck_MethodFirst(ride, u, m) ==
    IF ~PaymentSerializerValid(m) THEN "InvalidInput"
    ELSE IF ~PayAuthorized(ride, u) THEN "Unauthorized"
    ELSE IF ride.status # "COMPLETED" THEN "InvalidState"
    ELSE IF ride.payment_status = "PAID" THEN "AlreadyPaid"
    ELSE "ok"

MarkAsPaidCheck_NoStatus(ride, u, m) ==
    IF ~PayAuthorized(ride, u) THEN "Unauthorized"
    ELSE IF ride.payment_status = "PAID" THEN "AlreadyPaid"
    ELSE IF ~PaymentSerializerValid(m) THEN "InvalidInput"
    ELSE "ok"

MarkAsPaidCheck_StateFirst(ride, u, m) ==
    IF ride.status # "COMPLETED" THEN "InvalidState"
    ELSE IF ~PayAuthorized(ride, u) THEN "Unauthorized"
    ELSE IF ride.payment_status = "PAID" THEN "AlreadyPaid"
    ELSE IF ~PaymentSerializerValid(m) THEN "InvalidInput"
    ELSE "ok"

MarkAsPaidCheck(ride, u, m) ==
    IF ~PayAuthorized(ride, u) THEN "Unauthorized"
    ELSE IF ride.status # "COMPLETED" THEN "InvalidState"
    ELSE IF ride.payment_status = "PAID" THEN "AlreadyPaid"
    ELSE IF ~PaymentSerializerValid(m) THEN "InvalidInput"
    ELSE "ok"

MarkAsPaidRead(r, u, m) ==
    /\ Free
    /\ IF ~Exists(r)
       THEN /\ Respond("pay", r, u, "NotFound", "NONE", NULL)
            /\ UNCHANGED <<inflight, admitted>>
       ELSE IF MarkAsPaidCheck(rides[r], u, m) # "ok"
       THEN /\ Respond("pay", r, u, MarkAsPaidCheck(rides[r], u, m),
                       rides[r].status, NULL)
            /\ UNCHANGED <<inflight, admitted>>
       ELSE /\ Start([pc |-> "pay_save", ride |-> r, user |-> u,
                      copy |-> [rides[r] EXCEPT !.payment_status = "PAID",
                                                !.payment_method = m],
                      seen |-> rides[r].status])
            /\ Admit
            /\ UNCHANGED last
    /\ UNCHANGED <<rides, lock, acceptOk, cancelOk, paidOk, feedback, svars>>

MarkAsPaidSave(q) ==
    LET r == q.ride
    IN  /\ Quiet
        /\ q.pc = "pay_save"
        /\ ~lock[r]
        /\ rides' = [rides EXCEPT ![r] = q.copy]
        /\ paidOk' = [paidOk EXCEPT ![r] = Bump(@)]
        /\ Respond("pay", r, q.user, "ok", q.seen, q.copy.payment_method)
        /\ Finish(q)
        /\ UNCHANGED <<lock, acceptOk, cancelOk, admitted, feedback, svars>>

\* ---- models.py: RideFeedback; RideFeedbackSerializer; RideFeedbackView -------
\* What a caller may send: a rating below the range, one above it, and two
\* valid ratings with different comments.
FeedbackInputs ==
    {[rating |-> 0, comment |-> "bad"], [rating |-> 6, comment |-> "good"],
     [rating |-> 1, comment |-> "bad"], [rating |-> 5, comment |-> "good"]}

RatingValid_Any(rating) == TRUE

\* Field validation of the serializer: the validators of RideFeedback.rating.
RatingValid(rating) == rating >= 1 /\ rating <= 5

\* Rule 2 of validate().
FeedbackAuthorized(ride, u) ==
    \/ ride.rider = u
    \/ (ride.driver # NULL /\ ride.driver = u)

FeedbackValidate_AuthFirst(ride, u) ==
    IF ~FeedbackAuthorized(ride, u) THEN "Unauthorized"
    ELSE IF ride.status # "COMPLETED" THEN "InvalidState"
    ELSE "ok"

\* validate() up to its query: Rule 1 and Rule 2 on the instance of the
\* serializer context.
FeedbackValidate(ride, u) ==
    IF ride.status # "COMPLETED" THEN "InvalidState"
    ELSE IF ~FeedbackAuthorized(ride, u) THEN "Unauthorized"
    ELSE "ok"

\* RideFeedback.objects.filter(ride=ride, submitted_by=user)
FeedbackRows(r, u) ==
    {row \in BagToSet(feedback) : row.ride = r /\ row.submitted_by = u}

\* Number of rows of the table for (ride, submitted_by).
FeedbackCount(r, u) ==
    BagCardinality([row \in FeedbackRows(r, u) |-> feedback[row]])

UniqueTogether_None(r, u) == TRUE

\* Meta.unique_together = ('ride', 'submitted_by'): the INSERT is refused
\* when the table already holds a row for the pair.
UniqueTogether(r, u) == FeedbackRows(r, u) = {}

\* create(): the flag as the serializer derives it.
IsFromDriver(ride, u) == ride.driver # NULL /\ ride.driver = u

\* get_serializer_context (get_object_or_404), field validation, and Rules
\* 1 and 2 of validate(), all on the instance just read.
RideFeedbackBegin(r, u, d) ==
    /\ Free
    /\ IF ~Exists(r)
       THEN /\ Respond("feedback", r, u, "NotFound", "NONE", NULL)
            /\ UNCHANGED <<inflight, admitted>>
       ELSE IF ~RatingValid(d.rating)
       THEN /\ Respond("feedback", r, u, "InvalidInput", rides[r].status, NULL)
            /\ UNCHANGED <<inflight, admitted>>
       ELSE IF FeedbackValidate(rides[r], u) # "ok"
       THEN /\ Respond("feedback", r, u, FeedbackValidate(rides[r], u),
                       rides[r].status, NULL)
            /\ UNCHANGED <<inflight, admitted>>
       ELSE /\ Start([pc |-> "feedback_exists", ride |-> r, user |-> u,
                      copy |-> rides[r], seen |-> rides[r].status,
                      data |-> d])
            /\ Admit
            /\ UNCHANGED last
    /\ UNCHANGED <<rides, lock, acceptOk, cancelOk, paidOk, feedback, svars>>

\* Rule 3 of validate(): the .exists() query.
RideFeedbackExists(q) ==
    /\ Quiet
    /\ q.pc = "feedback_exists"
    /\ IF FeedbackRows(q.ride, q.user) # {}
       THEN /\ Respond("feedback", q.ride, q.user, "Duplicate", q.seen, NULL)
            /\ Finish(q)
       ELSE /\ Move(q, [q EXCEPT !.pc = "feedback_insert"])
            /\ UNCHANGED last
    /\ UNCHANGED <<rides, lock, acceptOk, cancelOk, paidOk, admitted, feedback, svars>>

\* serializer.create(): RideFeedback.objects.create(...).  The view does not
\* catch the IntegrityError of a refused INSERT.
RideFeedbackCreate(q) ==
    /\ Quiet
    /\ q.pc = "feedback_insert"
    /\ IF UniqueTogether(q.ride, q.user)
       THEN /\ feedback' = feedback (+) SetToBag({
                   [ride |-> q.ride, submitted_by |-> q.user,
                    rating |-> q.data.rating, comment |-> q.data.comment,
                    is_driver_feedback |-> IsFromDriver(q.copy, q.user)]})
            /\ Respond("feedback", q.ride, q.user, "ok", q.seen, NULL)
       ELSE /\ Respond("feedback", q.ride, q.user, "IntegrityError", q.seen, NULL)
            /\ UNCHANGED feedback
    /\ Finish(q)
    /\ UNCHANGED <<rides, lock, acceptOk, cancelOk, paidOk, admitted, svars>>

\* ---- the list views: AvailableRidesView, RiderHistoryView, DriverHistoryView ----
\* requested_at / created_at (auto_now_add): the rows are inserted one at a
\* time in the order of their ids, so the time of creation grows with the id.
requested_at(r) == r

\* order_by('-requested_at'), order_by('-created_at'): latest first.
RECURSIVE OrderByDesc(_)
OrderByDesc(S) ==
    IF S = {} THEN << >>
    ELSE LET first == CHOOSE x \in S : \A y \in S : requested_at(y) <= requested_at(x)
         IN  <<first>> \o OrderByDesc(S \ {first})

AvailableFilter_StatusOnly(ride) == ride.status # "CANCELLED"

\* filter(status='REQUESTED', driver__isnull=True)
AvailableFilter(ride) == ride.status = "REQUESTED" /\ ride.driver = NULL

HistoryFilter_AnyStatus(ride) == TRUE

\* filter(status__in=['COMPLETED', 'CANCELLED'])
HistoryFilter(ride) == ride.status \in {"COMPLETED", "CANCELLED"}

\* A list view answers with one query; with at most MaxRides rows the first
\* page (PAGE_SIZE 10) holds them all.
Listing(op, u, rows) ==
    last' = [op |-> op, ride |-> 0, user |-> u, result |-> "ok",
             seen |-> NULL, method |-> NULL, rows |-> rows]

AvailableRides(u) ==
    /\ Free
    /\ IF ~IsDriverUser(u)
       THEN Respond("available", 0, u, "Unauthorized", NULL, NULL)
       ELSE Listing("available", u,
                OrderByDesc({r \in DOMAIN rides : AvailableFilter(rides[r])}))
    /\ UNCHANGED <<rides, lock, inflight, acceptOk, cancelOk, paidOk, admitted,
                   feedback, svars>>

RiderHistory(u) ==
    /\ Free
    /\ Listing("rider_history", u,
           OrderByDesc({r \in DOMAIN rides :
                           rides[r].rider = u /\ HistoryFilter(rides[r])}))
    /\ UNCHANGED <<rides, lock, inflight, acceptOk, cancelOk, paidOk, admitted,
                   feedback, svars>>

DriverHistory(u) ==
    /\ Free
    /\ Listing("driver_history", u,
           OrderByDesc({r \in DOMAIN rides :
                           rides[r].driver = u /\ HistoryFilter(rides[r])}))
    /\ UNCHANGED <<rides, lock, inflight, acceptOk, cancelOk, paidOk, admitted,
                   feedback, svars>>

\* The response leaves the server.  A response is recorded only to be
\* observed: the requests are stepped between responses, which loses no
\* behaviour of the table, the lock and the requests in progress.
SendResponse ==
    /\ last # NoResponse
    /\ last' = NoResponse
    /\ UNCHANGED <<rides, lock, inflight, acceptOk, cancelOk, paidOk, admitted, feedback, svars>>

Next ==
    \/ \E u \in Users : RideRequest(u)
    \/ \E r \in RideIds, u \in Users : AcceptRideBegin(r, u)
    \/ \E q \in Requests : AcceptRideLock(q)
    \/ \E q \in Requests : AcceptRideSave(q)
    \/ \E r \in RideIds, u \in Users : CompleteRideRead(r, u)
    \/ \E q \in Requests : CompleteRideSave(q)
    \/ \E r \in RideIds, u \in Users : CancelRideRead(r, u)
    \/ \E q \in Requests : CancelRideSave(q)
    \/ \E r \in RideIds, u \in Users, m \in MethodInputs : MarkAsPaidRead(r, u, m)
    \/ \E q \in Requests : MarkAsPaidSave(q)
    \/ \E r \in RideIds, u \in Users, d \in FeedbackInputs : RideFeedbackBegin(r, u, d)
    \/ \E q \in Requests : RideFeedbackExists(q)
    \/ \E q \in Requests : RideFeedbackCreate(q)
    \/ SendResponse

Spec == Init /\ [][Next]_vars

\* ---- Task1Week8.py: SessionManager ---------------------------------------------
rvars == <<rides, lock, inflight, last, acceptOk, cancelOk, paidOk, admitted, feedback>>

SessionIds == {"s1", "s2"}

\* The call that has just returned: its arguments, its return value, the
\* time.time() it read, the message it printed and the timestamp it found.
Returns(op, id, sliding, value, printed, creation_time) ==
    returned' = [op |-> op, id |-> id, sliding |-> sliding, value |-> value,
                 at |-> now, printed |-> printed, creation_time |-> creation_time]

Constructed == expiry_seconds > 0

\* SessionManager(expiry_seconds): a value that is not positive raises.
SessionManager(e) ==
    /\ ~Constructed
    /\ IF e <= 0
       THEN /\ Returns("SessionManager", NULL, FALSE, "ValueError", NULL, 0)
            /\ UNCHANGED <<sessions, expiry_seconds>>
       ELSE /\ expiry_seconds' = e
            /\ sessions' = << >>
            /\ Returns("SessionManager", NULL, FALSE, NULL, "initialized", 0)
    /\ UNCHANGED <<now, rvars>>

\* time.time() advances.
Tick ==
    /\ now < MaxTime
    /\ now' = now + 1
    /\ UNCHANGED <<sessions, expiry_seconds, returned, rvars>>

Put_KeepOld(s, id, t) ==
    [i \in DOMAIN s \cup {id} |-> IF i \in DOMAIN s THEN s[i] ELSE t]

Put(s, id, t) == [i \in DOMAIN s \cup {id} |-> IF i = id THEN t ELSE s[i]]

Del(s, id) == [i \in DOMAIN s \ {id} |-> s[i]]

create_session(id) ==
    /\ Constructed
    /\ sessions' = Put(sessions, id, now)
    /\ Returns("create_session", id, FALSE, id, "created",
               IF id \in DOMAIN sessions THEN sessions[id] ELSE 0)
    /\ UNCHANGED <<expiry_seconds, now, rvars>>

Expired_Inclusive(creation_time, current_time) ==
    current_time >= creation_time + expiry_seconds

Expired(creation_time, current_time) ==
    current_time > creation_time + expiry_seconds

SlidingRefresh_Always(s, id, sliding_expiration, current_time) ==
    Put(s, id, current_time)

SlidingRefresh(s, id, sliding_expiration, current_time) ==
    IF sliding_expiration THEN Put(s, id, current_time) ELSE s

is_session_active_KeepExpired(session_id, sliding_expiration) ==
    /\ Constructed
    /\ IF session_id \notin DOMAIN sessions
       THEN /\ Returns("is_session_active", session_id, sliding_expiration,
                       FALSE, "not found", 0)
            /\ UNCHANGED sessions
       ELSE LET creation_time == sessions[session_id]
                current_time == now
            IN  IF Expired(creation_time, current_time)
                THEN /\ UNCHANGED sessions
                     /\ Returns("is_session_active", session_id,
                                sliding_expiration, FALSE, "expired",
                                creation_time)
                ELSE /\ sessions' = SlidingRefresh(sessions, session_id,
                                                   sliding_expiration, current_time)
                     /\ Returns("is_session_active", session_id,
                                sliding_expiration, TRUE,
                                IF sliding_expiration THEN "refreshed" ELSE "active",
                                creation_time)
    /\ UNCHANGED <<expiry_seconds, now, rvars>>

is_session_active_RefreshFirst(session_id, sliding_expiration) ==
    /\ Constructed
    /\ IF session_id \notin DOMAIN sessions
       THEN /\ Returns("is_session_active", session_id, sliding_expiration,
                       FALSE, "not found", 0)
            /\ UNCHANGED sessions
       ELSE LET current_time == now
                refreshed == SlidingRefresh(sessions, session_id,
                                            sliding_expiration, current_time)
                creation_time == refreshed[session_id]
            IN  IF Expired(creation_time, current_time)
                THEN /\ sessions' = Del(sessions, session_id)
                     /\ Returns("is_session_active", session_id,
                                sliding_expiration, FALSE, "expired",
                                creation_time)
                ELSE /\ sessions' = refreshed
                     /\ Returns("is_session_active", session_id,
                                sliding_expiration, TRUE,
                                IF sliding_expiration THEN "refreshed" ELSE "active",
                                sessions[session_id])
    /\ UNCHANGED <<expiry_seconds, now, rvars>>

is_session_active(session_id, sliding_expiration) ==
    /\ Constructed
    /\ IF session_id \notin DOMAIN sessions
       THEN /\ Returns("is_session_active", session_id, sliding_expiration,
                       FALSE, "not found", 0)
            /\ UNCHANGED sessions
       ELSE LET creation_time == sessions[session_id]
                current_time == now
            IN  IF Expired(creation_time, current_time)
                THEN /\ sessions' = Del(sessions, session_id)
                     /\ Returns("is_session_active", session_id,
                                sliding_expiration, FALSE, "expired",
                                creation_time)
                ELSE /\ sessions' = SlidingRefresh(sessions, session_id,
                                                   sliding_expiration, current_time)
                     /\ Returns("is_session_active", session_id,
                                sliding_expiration, TRUE,
                                IF sliding_expiration THEN "refreshed" ELSE "active",
                                creation_time)
    /\ UNCHANGED <<expiry_seconds, now, rvars>>

delete_session_ClearAll(session_id) ==
    /\ Constructed
    /\ IF session_id \in DOMAIN sessions
       THEN /\ sessions' = << >>
            /\ Returns("delete_session", session_id, FALSE, "Deleted",
                       "deleted", sessions[session_id])
       ELSE /\ UNCHANGED sessions
            /\ Returns("delete_session", session_id, FALSE, "Not Found",
                       "not found", 0)
    /\ UNCHANGED <<expiry_seconds, now, rvars>>

delete_session(session_id) ==
    /\ Constructed
    /\ IF session_id \in DOMAIN sessions
       THEN /\ sessions' = Del(sessions, session_id)
            /\ Returns("delete_session", session_id, FALSE, "Deleted",
                       "deleted", sessions[session_id])
       ELSE /\ UNCHANGED sessions
            /\ Returns("delete_session", session_id, FALSE, "Not Found",
                       "not found", 0)
    /\ UNCHANGED <<expiry_seconds, now, rvars>>

SessionNext ==
    \/ \E e \in 0..MaxExpiry : SessionManager(e)
    \/ Tick
    \/ \E id \in SessionIds : create_session(id)
    \/ \E id \in SessionIds, sl \in BOOLEAN : is_session_active(id, sl)
    \/ \E id \in SessionIds : delete_session(id)

SessionSpec == Init /\ [][SessionNext]_vars

\* The steps of the accept request of driver u on ride r.
AcceptLockStep(r, u) ==
    \E q \in Requests : q.ride = r /\ q.user = u /\ AcceptRideLock(q)

AcceptSaveStep(r, u) ==
    \E q \in Requests : q.ride = r /\ q.user = u /\ AcceptRideSave(q)

\* A worker runs its handler to the end, the database grants a released row
\* lock to a waiting transaction, and a response is delivered.
AcceptFairness ==
    /\ \A r \in RideIds, u \in Drivers :
           SF_vars(AcceptLockStep(r, u)) /\ SF_vars(AcceptSaveStep(r, u))
    /\ WF_vars(SendResponse)

\* The requests that touch the row an accept locks: create, accept and the
\* unlocked cancel.
AcceptNext ==
    \/ \E u \in Users : RideRequest(u)
    \/ \E r \in RideIds, u \in Users : AcceptRideBegin(r, u)
    \/ \E q \in Requests : AcceptRideLock(q)
    \/ \E q \in Requests : AcceptRideSave(q)
    \/ \E r \in RideIds, u \in Users : CancelRideRead(r, u)
    \/ \E q \in Requests : CancelRideSave(q)
    \/ SendResponse

FairSpec == Init /\ [][AcceptNext]_vars /\ AcceptFairness

\* The ride service with its list views.
QueryNext ==
    \/ Next
    \/ \E u \in Users : AvailableRides(u)
    \/ \E u \in Users : RiderHistory(u)
    \/ \E u \in Users : DriverHistory(u)

QuerySpec == Init /\ [][QueryNext]_vars

\* ==== Properties ==========================================================

Pending(pc) == {q \in Requests : q.pc = pc}

\* C1: for a ride that nobody cancelled, at most one AcceptRide call ever
\* returns success; every accept by a driver on an existing ride returns
\* either success or RideUnavailable; and whenever a driver is told
\* RideUnavailable, exactly one other accept of that ride has succeeded.
C1_ExactlyOneAcceptWins ==
    \A r \in RideIds :
        /\ acceptOk[r] <= 1
        /\ (last.op = "accept" /\ last.ride = r /\ Exists(r)
                /\ last.user \in Drivers)
              => last.result \in {"ok", "RideUnavailable"}
        /\ (last.op = "accept" /\ last.ride = r
                /\ last.result = "RideUnavailable" /\ cancelOk[r] = 0)
              => acceptOk[r] = 1

\* Two drivers contend for one ride: one has just been told it won while the
\* other's accept call is still waiting at select_for_update.
C1_Witness ==
    \E q \in Pending("accept_lock") :
        /\ last.op = "accept" /\ last.result = "ok"
        /\ last.ride = q.ride
        /\ last.user # q.user
        /\ acceptOk[last.ride] = 1 /\ cancelOk[last.ride] = 0

\* C2: once a ride has a driver, no step changes the driver or resets it to
\* null.
C2_DriverImmutable ==
    [][\A r \in DOMAIN rides :
          rides[r].driver # NULL => rides'[r].driver = rides[r].driver]_vars

\* C3: every change of a ride's status follows one of the edges
\* REQUESTED->ONGOING, ONGOING->COMPLETED, REQUESTED->CANCELLED.
AllowedEdges ==
    {<<"REQUESTED", "ONGOING">>, <<"ONGOING", "COMPLETED">>,
     <<"REQUESTED", "CANCELLED">>}

C3_OnlyAllowedEdges ==
    [][\A r \in DOMAIN rides :
          rides'[r].status # rides[r].status
             => <<rides[r].status, rides'[r].status>> \in AllowedEdges]_vars

\* C4: a cancel and an accept of the same ride never both report success.
C4_CancelAcceptExclusive ==
    \A r \in RideIds : ~(acceptOk[r] >= 1 /\ cancelOk[r] >= 1)

\* C5: a ride's driver is null exactly when its status is REQUESTED or
\* CANCELLED.
C5_DriverNullIffUnassigned ==
    \A r \in DOMAIN rides :
        (rides[r].driver = NULL) <=> (rides[r].status \in {"REQUESTED", "CANCELLED"})

\* A ride the rider cancelled after a driver had accepted it (the cancel
\* request read the row before the accept committed): it is CANCELLED and
\* has no driver.
C5_Witness ==
    \E r \in DOMAIN rides :
        /\ acceptOk[r] = 1 /\ cancelOk[r] = 1
        /\ rides[r].status = "CANCELLED" /\ rides[r].driver = NULL

\* C6 (as claimed): any accept, complete or cancel that finds the ride
\* COMPLETED or CANCELLED fails with InvalidState and leaves the status as it
\* was.  (The 400 "no longer available" of accept is counted as the
\* wrong-state error here.)
C6_TerminalFailsInvalidState ==
    (last.op \in {"accept", "complete", "cancel"} /\ last.seen \in Terminal)
       => /\ last.result \in {"InvalidState", "RideUnavailable"}
          /\ rides[last.ride].status = last.seen

\* C6 (amended): such a call always fails and leaves the status as it was;
\* it fails with Unauthorized when the caller is not authorized for the
\* operation (not a driver for accept, not the ride's assigned driver for
\* complete, not the ride's rider for cancel), otherwise with RideUnavailable
\* for accept and InvalidState for complete and cancel.
C6_TerminalRejects ==
    (last.op \in {"accept", "complete", "cancel"} /\ last.seen \in Terminal)
       => LET ride == rides[last.ride]
              u == last.user
          IN  /\ ride.status = last.seen
              /\ last.op = "accept" =>
                    last.result = IF u \notin Drivers THEN "Unauthorized"
                                  ELSE "RideUnavailable"
              /\ last.op = "complete" =>
                    last.result = IF u \notin Drivers \/ ride.driver # u
                                  THEN "Unauthorized" ELSE "InvalidState"
              /\ last.op = "cancel" =>
                    last.result = IF ride.rider # u THEN "Unauthorized"
                                  ELSE "InvalidState"

\* The ride's own rider tries to cancel a COMPLETED ride.
C6_Witness ==
    /\ last.op = "cancel" /\ last.seen = "COMPLETED"
    /\ last.result = "InvalidState"
    /\ rides[last.ride].rider = last.user

C8_PaidExactlyOnce ==
    \A r \in RideIds : paidOk[r] <= 1

\* C9: a MarkPaid call by an authorized caller that starts after a MarkPaid
\* of the same ride has succeeded is answered AlreadyPaid and writes nothing.
C9_RepeatIsAlreadyPaid ==
    [][\A r \in DOMAIN rides, u \in Users, m \in MethodInputs :
          (paidOk[r] >= 1 /\ PayAuthorized(rides[r], u)
              /\ MarkAsPaidRead(r, u, m))
             => (last'.result = "AlreadyPaid" /\ inflight' = inflight)]_vars

\* C10: MarkPaid on an existing ride answers Unauthorized to a caller who is
\* neither the rider nor the assigned driver, whatever the status and the
\* payment status; InvalidState to an authorized caller when the ride is not
\* COMPLETED; and AlreadyPaid only to an authorized caller on a COMPLETED,
\* PAID ride.
C10_PayCheckOrder ==
    (last.op = "pay" /\ last.result \notin {"ok", "NotFound"})
       => LET ride == rides[last.ride]
              auth == ride.rider = last.user \/ ride.driver = last.user
          IN  /\ ~auth => last.result = "Unauthorized"
              /\ (auth /\ ride.status # "COMPLETED")
                    => last.result = "InvalidState"
              /\ last.result = "AlreadyPaid"
                    => (auth /\ ride.status = "COMPLETED"
                             /\ ride.payment_status = "PAID")

\* A stranger asks to pay a ride that is COMPLETED and already PAID: both
\* Unauthorized and AlreadyPaid apply, and Unauthorized is reported.
C10_Witness ==
    /\ last.op = "pay" /\ last.result = "Unauthorized"
    /\ rides[last.ride].status = "COMPLETED"
    /\ rides[last.ride].payment_status = "PAID"

\* C11: the feedback table never holds two rows for the same ride and
\* submitter, also when one actor's submissions for a ride run concurrently.
C11_OneFeedbackPerPair ==
    \A r \in RideIds, u \in Users : FeedbackCount(r, u) <= 1

\* Two submissions of one actor for one ride both passed validate(); the
\* first inserted its row and the INSERT of the second was refused.
C11_Witness ==
    /\ last.op = "feedback" /\ last.result = "IntegrityError"
    /\ FeedbackCount(last.ride, last.user) = 1

\* C12: a submission with a valid rating by an actor who already has a row
\* for the ride gets past the checks on the ride, is answered Duplicate by
\* the query of validate(), whatever its rating and comment, and no step
\* removes or rewrites a stored row.
C12_RepeatIsDuplicate ==
    [][/\ \A r \in DOMAIN rides, u \in Users, d \in FeedbackInputs :
              (FeedbackCount(r, u) >= 1 /\ RatingValid(d.rating)
                  /\ RideFeedbackBegin(r, u, d))
                 => (last' = NoResponse /\ inflight' # inflight)
       /\ \A q \in Pending("feedback_exists") :
              (FeedbackCount(q.ride, q.user) >= 1 /\ RideFeedbackExists(q))
                 => (last'.result = "Duplicate" /\ feedback' = feedback)
       /\ \A row \in BagToSet(feedback) :
              row \in BagToSet(feedback')]_vars

C14_FeedbackCheckOrder ==
    [][/\ \A d \in FeedbackInputs :
              (last'.op = "feedback" /\ last'.ride \in DOMAIN rides
                  /\ d.rating \in 1..5
                  /\ RideFeedbackBegin(last'.ride, last'.user, d))
                 => LET ride == rides[last'.ride]
                        auth == last'.user \in {ride.rider, ride.driver}
                    IN  IF ride.status # "COMPLETED"
                        THEN last'.result = "InvalidState"
                        ELSE ~auth /\ last'.result = "Unauthorized"
       /\ \A q \in BagToSet(inflight') :
              (inflight' # inflight /\ q.pc = "feedback_exists"
                  /\ RideFeedbackBegin(q.ride, q.user, q.data))
                 => /\ rides[q.ride].status = "COMPLETED"
                    /\ q.user \in {rides[q.ride].rider, rides[q.ride].driver}
                    /\ last' = NoResponse
       /\ \A q \in Pending("feedback_exists") :
              RideFeedbackExists(q)
                 => IF FeedbackCount(q.ride, q.user) >= 1
                    THEN last'.result = "Duplicate"
                    ELSE last' = NoResponse]_vars

\* A driver who is not the ride's driver submits feedback for a ride that is
\* not COMPLETED: InvalidState and Unauthorized both apply, and InvalidState
\* is reported.
C14_Witness ==
    /\ last.op = "feedback" /\ last.result = "InvalidState"
    /\ last.user \in Drivers
    /\ rides[last.ride].driver \notin {NULL, last.user}

\* C15: every stored feedback row belongs to a ride that is COMPLETED, and
\* its submitter is that ride's rider or its assigned driver.
C15_FeedbackOnlyCompleted ==
    \A row \in BagToSet(feedback) :
        /\ rides[row.ride].status = "COMPLETED"
        /\ row.submitted_by \in {rides[row.ride].rider, rides[row.ride].driver}

\* C16: in every stored feedback row, is_driver_feedback is true exactly when
\* the submitter is the ride's assigned driver, and false exactly when the
\* submitter is the ride's rider.
C16_DriverFlagMatchesRole ==
    \A row \in BagToSet(feedback) :
        /\ row.is_driver_feedback = TRUE
              <=> row.submitted_by = rides[row.ride].driver
        /\ row.is_driver_feedback = FALSE
              <=> row.submitted_by = rides[row.ride].rider

\* C17: accept, complete and cancel answer NotFound for a ride id that does
\* not exist, whoever the caller is, and Unauthorized to an unauthorized
\* caller (not a driver for accept, not the assigned driver for complete,
\* not the ride's rider for cancel) on an existing ride, whatever its status.
C17_ErrorPrecedence ==
    last.op \in {"accept", "complete", "cancel"}
       => IF ~Exists(last.ride)
          THEN last.result = "NotFound"
          ELSE LET ride == rides[last.ride]
                   u == last.user
                   authorized ==
                       CASE last.op = "accept" -> u \in Drivers
                         [] last.op = "complete" -> u \in Drivers /\ ride.driver = u
                         [] last.op = "cancel" -> ride.rider = u
               IN  ~authorized => last.result = "Unauthorized"

\* The row of a ride with another status and payment status.
WithState(ride, st, pst) == [ride EXCEPT !.status = st, !.payment_status = pst]

\* C18: the answer that complete, cancel or markPaid gives to a caller who is
\* not authorized for the ride is the answer the same call gets in every
\* state that differs from the current one only in the ride's status and
\* payment status; and no call of an unauthorized caller gets past its
\* checks.
C18_UnauthorizedLearnsNothing ==
    /\ (last.op \in {"complete", "cancel", "pay"} /\ Exists(last.ride))
          => LET ride == rides[last.ride]
                 u == last.user
                 same(check(_)) ==
                     \A st \in STATUS_CHOICES, pst \in PAYMENT_STATUS_CHOICES :
                         last.result = check(WithState(ride, st, pst))
             IN  /\ (last.op = "complete" /\ ~(u \in Drivers /\ ride.driver = u))
                       => same(LAMBDA x : CompleteCheck(x, u))
                 /\ (last.op = "cancel" /\ ride.rider # u)
                       => same(LAMBDA x : CancelCheck(x, u))
                 /\ (last.op = "pay" /\ ride.rider # u /\ ride.driver # u)
                       => \A m \in MethodInputs :
                              same(LAMBDA x : MarkAsPaidCheck(x, u, m))
    /\ \A q \in Pending("complete_save") : q.copy.driver = q.user
    /\ \A q \in Pending("cancel_save") : q.copy.rider = q.user
    /\ \A q \in Pending("pay_save") : q.user \in {q.copy.rider, q.copy.driver}

\* A driver who is not the ride's driver asks to complete another driver's
\* ONGOING ride and gets the answer it would get in any other status.
C18_Witness ==
    /\ last.op = "complete" /\ last.result = "Unauthorized"
    /\ last.user \in Drivers
    /\ rides[last.ride].status = "ONGOING"
    /\ rides[last.ride].driver # last.user

\* C19: a CompleteRide call by the assigned driver that found the ride
\* ONGOING goes on to its save, and the save sets the status to COMPLETED
\* and changes nothing else of the ride (driver, rider, payment status and
\* method); a CompleteRide call by a driver who is not the assigned one is
\* answered Unauthorized and changes nothing.
C19_CompleteOnlySetsStatus ==
    [][/\ \A r \in DOMAIN rides, u \in Drivers :
              CompleteRideRead(r, u)
                 => /\ rides' = rides
                    /\ (rides[r].driver = u /\ rides[r].status = "ONGOING")
                          => (last' = NoResponse /\ inflight' # inflight)
                    /\ rides[r].driver # u
                          => (last'.result = "Unauthorized" /\ inflight' = inflight)
       /\ \A q \in Pending("complete_save") :
              CompleteRideSave(q)
                 => /\ last'.result = "ok"
                    /\ rides' = [rides EXCEPT ![q.ride].status = "COMPLETED"]]_vars

\* C20: a CancelRide call reports success, and writes CANCELLED, only for
\* the ride's own rider and only on a ride that is REQUESTED and has no
\* driver; a CancelRide call by the ride's rider on an ONGOING ride is
\* answered InvalidState and leaves the ride as it is.
C20_CancelOnlyRequested ==
    [][/\ \A q \in Pending("cancel_save") :
              CancelRideSave(q)
                 => /\ rides[q.ride].rider = q.user
                    /\ rides[q.ride].status = "REQUESTED"
                    /\ rides[q.ride].driver = NULL
       /\ \A r \in DOMAIN rides, u \in Users :
              (rides[r].rider = u /\ rides[r].status = "ONGOING"
                  /\ CancelRideRead(r, u))
                 => /\ last'.result = "InvalidState"
                    /\ rides' = rides /\ inflight' = inflight]_vars

\* In a listing, the ride at place i was created before the ride at place j.
Before(rows, i, j) == requested_at(rows[i]) < requested_at(rows[j])

\* C21: the list of available rides is ordered oldest request first.
C21_AvailableOldestFirst ==
    last.op = "available"
       => \A i, j \in DOMAIN last.rows : i < j => Before(last.rows, i, j)

\* The ride ids of a listing, and that none is listed twice.
Listed(rows) == {rows[i] : i \in DOMAIN rows}
NoRepeats(rows) == Cardinality(Listed(rows)) = Len(rows)

C24_CreateDefaults ==
    last.op = "create"
       => rides[last.ride] =
             [rider |-> last.user, driver |-> NULL, status |-> "REQUESTED",
              payment_status |-> "UNPAID", payment_method |-> NULL]

\* The second rider has just created the second ride.
C24_Witness ==
    /\ last.op = "create" /\ last.result = "ok"
    /\ last.ride = 2 /\ last.user = "r2"
    /\ rides[2].status = "REQUESTED" /\ rides[1].rider = "r1"

\* C25: a step that answers an accept, complete, cancel, markPaid or
\* submitFeedback call with an error leaves every ride row and every
\* feedback row as it was, and such a call has written nothing before: the
\* only write of a request is its last step, which answers success.
C25_ErrorsWriteNothing ==
    [][/\ (last' # last
              /\ last'.op \in {"accept", "complete", "cancel", "pay", "feedback"}
              /\ last'.result # "ok")
          => (rides' = rides /\ feedback' = feedback)
       /\ (rides' # rides \/ feedback' # feedback)
          => \/ last'.result = "ok" /\ inflight' # inflight
             \/ last'.op = "create"]_vars

\* An accept that found the ride taken has been answered RideUnavailable,
\* and the ride is as the winner left it.
C25_Witness ==
    /\ last.op = "accept" /\ last.result = "RideUnavailable"
    /\ last.seen = "ONGOING"
    /\ rides[last.ride].driver \notin {NULL, last.user}
    /\ rides[last.ride].status = "ONGOING"

\* C26: a step changes a ride row only when it is the save of a request on
\* that very ride; and an accept that waits for its ride can take its step
\* whenever that ride's row is not locked, whatever locks are held on other
\* rides.
C26_DistinctRidesIndependent ==
    [][/\ \A b \in DOMAIN rides :
              rides'[b] # rides[b]
                 => (last'.ride = b /\ last'.op # "create")
       /\ \A q \in Pending("accept_lock") :
              (Quiet /\ (Exists(q.ride) => ~lock[q.ride]))
                 => ENABLED AcceptRideLock(q)]_vars

\* Two accepts of two different rides hold their row locks at the same time.
C26_Witness ==
    /\ lock[1] /\ lock[2]
    /\ \E q1, q2 \in Pending("accept_save") : q1.ride = 1 /\ q2.ride = 2

AcceptInProgress(r, u) ==
    \E q \in Requests :
        q.pc \in {"accept_lock", "accept_save"} /\ q.ride = r /\ q.user = u

AcceptAnswered(r, u) ==
    /\ last.op = "accept" /\ last.ride = r /\ last.user = u
    /\ last.result \in {"ok", "RideUnavailable", "NotFound"}

\* C27: under fair scheduling every accept request that has started is
\* answered with success, RideUnavailable or NotFound, and every row lock
\* that is held is released.
C27_AcceptReturns ==
    /\ \A r \in RideIds, u \in Drivers :
           AcceptInProgress(r, u) ~> AcceptAnswered(r, u)
    /\ \A r \in RideIds : lock[r] ~> ~lock[r]

\* An accept waits for a row whose lock another accept holds.
C27_Witness ==
    \E q \in Pending("accept_lock") :
        /\ Exists(q.ride) /\ lock[q.ride]
        /\ \E h \in Pending("accept_save") : h.ride = q.ride /\ h.user # q.user

\* C28: is_session_active returns True exactly when the id is stored and the
\* clock is not past timestamp + expiry_seconds; at the boundary itself the
\* session is still active.
C28_ActiveExactlyWithinExpiry ==
    [][\A id \in SessionIds, sl \in BOOLEAN :
          is_session_active(id, sl)
             => returned'.value =
                   (/\ id \in DOMAIN sessions
                    /\ now <= sessions[id] + expiry_seconds)]_vars

\* A check made exactly at timestamp + expiry_seconds answered True.
C28_Witness ==
    /\ returned.op = "is_session_active" /\ returned.value = TRUE
    /\ returned.at = returned.creation_time + expiry_seconds

\* C29: a check that finds the session expired removes it and answers False;
\* while an id is not stored a check answers False and a deletion answers
\* "Not Found", and only create_session of that id stores it again.
C29_ExpiredIsDeleted ==
    [][\A id \in SessionIds :
          /\ \A sl \in BOOLEAN :
                (/\ is_session_active(id, sl)
                 /\ id \in DOMAIN sessions
                 /\ now > sessions[id] + expiry_seconds)
                   => (id \notin DOMAIN sessions' /\ returned'.value = FALSE)
          /\ id \notin DOMAIN sessions
                => /\ \A sl \in BOOLEAN :
                         is_session_active(id, sl) => returned'.value = FALSE
                   /\ delete_session(id) => returned'.value = "Not Found"
                   /\ id \in DOMAIN sessions'
                         => (returned'.op = "create_session" /\ returned'.id = id)]_vars

\* A check has just found its session expired and the session is gone.
C29_Witness ==
    /\ returned.op = "is_session_active" /\ returned.printed = "expired"
    /\ returned.value = FALSE
    /\ returned.id \notin DOMAIN sessions

\* C30: a check of an active session with sliding_expiration sets the
\* timestamp to the time of the call; without it the timestamp stays.
C30_SlidingResetsTimestamp ==
    [][\A id \in SessionIds, sl \in BOOLEAN :
          (/\ is_session_active(id, sl)
           /\ id \in DOMAIN sessions
           /\ now <= sessions[id] + expiry_seconds)
             => /\ id \in DOMAIN sessions'
                /\ sessions'[id] = IF sl THEN now ELSE sessions[id]]_vars

\* A sliding check moved a timestamp forward.
C30_Witness ==
    /\ returned.op = "is_session_active" /\ returned.sliding
    /\ returned.value = TRUE
    /\ returned.creation_time < returned.at
    /\ returned.id \in DOMAIN sessions
    /\ sessions[returned.id] = returned.at

\* The store s2 is the store s1 except at id.
SameExcept(s1, s2, id) ==
    /\ DOMAIN s2 \ {id} = DOMAIN s1 \ {id}
    /\ \A i \in DOMAIN s1 \ {id} : s2[i] = s1[i]

\* C31: delete_session answers "Deleted" exactly for a stored id and removes
\* that id only; for an id that is not stored it answers "Not Found" and
\* leaves the store as it is, and so does a check or a second deletion of a
\* deleted id.
C31_DeleteRemovesOnlyThatId ==
    [][\A id \in SessionIds :
          /\ delete_session(id)
                => /\ (returned'.value = "Deleted") = (id \in DOMAIN sessions)
                   /\ returned'.value \in {"Deleted", "Not Found"}
                   /\ id \notin DOMAIN sessions'
                   /\ SameExcept(sessions, sessions', id)
          /\ (returned.op = "delete_session" /\ returned.id = id
              /\ id \notin DOMAIN sessions)
                => /\ delete_session(id)
                      => (returned'.value = "Not Found" /\ sessions' = sessions)
                   /\ \A sl \in BOOLEAN :
                         is_session_active(id, sl)
                            => (returned'.value = FALSE /\ sessions' = sessions)]_vars

\* A deletion succeeded and another session is still stored.
C31_Witness ==
    /\ returned.op = "delete_session" /\ returned.value = "Deleted"
    /\ returned.id \notin DOMAIN sessions
    /\ \E i \in DOMAIN sessions : i # returned.id

\* C39: a sliding check of a session past its expiry answers False and
\* removes it; a stored session that is past its expiry gets a new timestamp
\* only from create_session of its id.
C39_ExpiredNeverRevived ==
    [][\A id \in SessionIds :
          (id \in DOMAIN sessions /\ now > sessions[id] + expiry_seconds)
             => /\ is_session_active(id, TRUE)
                   => (returned'.value = FALSE /\ id \notin DOMAIN sessions')
                /\ (id \in DOMAIN sessions' /\ sessions'[id] # sessions[id])
                   => (returned'.op = "create_session" /\ returned'.id = id)]_vars

\* A sliding check found its session expired and removed it.
C39_Witness ==
    /\ returned.op = "is_session_active" /\ returned.sliding
    /\ returned.printed = "expired" /\ returned.value = FALSE
    /\ returned.at > returned.creation_time + expiry_seconds
    /\ returned.id \notin DOMAIN sessions

\* C40: create_session returns the id and stores the current time for it,
\* also when the id is already stored, and leaves every other session alone.
C40_CreateOverwrites ==
    [][\A id \in SessionIds :
          create_session(id)
             => /\ returned'.value = id
                /\ id \in DOMAIN sessions'
                /\ sessions'[id] = now
                /\ SameExcept(sessions, sessions', id)]_vars

\* create_session replaced an older timestamp of its id.
C40_Witness ==
    /\ returned.op = "create_session"
    /\ 0 < returned.creation_time /\ returned.creation_time < returned.at
    /\ sessions[returned.id] = returned.at
    /\ \E i \in DOMAIN sessions : i # returned.id /\ sessions[i] < returned.at

\* C32: once a ride is PAID no step makes it UNPAID again or changes its
\* payment method.
C32_PaidNeverReverts ==
    [][\A r \in DOMAIN rides :
          rides[r].payment_status = "PAID"
             => /\ rides'[r].payment_status = "PAID"
                /\ rides'[r].payment_method = rides[r].payment_method]_vars

\* C33: every answer to a feedback submission is a success or one of the
\* reported errors; the race of two submissions of one actor never ends in
\* the unhandled failure of the insert.
C33_RaceIsReportedDuplicate ==
    last.op = "feedback"
       => last.result \in {"ok", "NotFound", "InvalidInput", "InvalidState",
                           "Unauthorized", "Duplicate"}

\* C34: a feedback submission by a principal who is neither the rider nor
\* the assigned driver of the ride is refused as Unauthorized, whatever the
\* status of the ride.
C34_FeedbackAuthorizationFirst ==
    (/\ last.op = "feedback"
     /\ last.result \in {"InvalidState", "Unauthorized"}
     /\ ~FeedbackAuthorized(rides[last.ride], last.user))
       => last.result = "Unauthorized"

\* C35: a MarkPaid call with a method outside CASH, CARD, WALLET on an
\* existing ride is answered Unauthorized, InvalidState or AlreadyPaid when
\* one of these applies, in this order, and InvalidInput only by an
\* authorized caller on a COMPLETED, UNPAID ride; it writes nothing, the ride
\* stays UNPAID without a method, and no request goes on to save such a
\* method.
C35_InvalidMethodLast ==
    [][/\ \A m \in MethodInputs \ {"CASH", "CARD", "WALLET"} :
              (/\ last'.op = "pay" /\ last'.ride \in DOMAIN rides
               /\ MarkAsPaidRead(last'.ride, last'.user, m))
                 => LET ride == rides[last'.ride]
                        auth == last'.user \in {ride.rider, ride.driver}
                    IN  /\ last'.result =
                              IF ~auth THEN "Unauthorized"
                              ELSE IF ride.status # "COMPLETED" THEN "InvalidState"
                              ELSE IF ride.payment_status = "PAID" THEN "AlreadyPaid"
                              ELSE "InvalidInput"
                        /\ rides' = rides
                        /\ last'.result = "InvalidInput"
                              => /\ rides'[last'.ride].payment_status = "UNPAID"
                                 /\ rides'[last'.ride].payment_method = NULL
       /\ \A q \in BagToSet(inflight') :
              q.pc = "pay_save"
                 => q.copy.payment_method \in {"CASH", "CARD", "WALLET"}]_vars

\* A participant of a COMPLETED, UNPAID ride is refused for the method only.
C35_Witness ==
    /\ last.op = "pay" /\ last.result = "InvalidInput"
    /\ last.user \in {rides[last.ride].rider, rides[last.ride].driver}
    /\ rides[last.ride].status = "COMPLETED"
    /\ rides[last.ride].payment_status = "UNPAID"
    /\ rides[last.ride].payment_method = NULL

\* C36: in every state a ride has no payment method exactly when it is
\* UNPAID, and the method of a PAID ride is CASH, CARD or WALLET.
C36_MethodIffPaid ==
    \A r \in DOMAIN rides :
        /\ (rides[r].payment_method = NULL) = (rides[r].payment_status = "UNPAID")
        /\ rides[r].payment_status = "PAID"
              => rides[r].payment_method \in {"CASH", "CARD", "WALLET"}

\* A MarkPaid call has just stored PAID together with its method.
C36_Witness ==
    /\ last.op = "pay" /\ last.result = "ok"
    /\ last.method \in {"CASH", "CARD", "WALLET"}
    /\ rides[last.ride].payment_status = "PAID"
    /\ rides[last.ride].payment_method = last.method

\* The rides a history call of principal u returns.
InRiderHistory(u) ==
    {r \in DOMAIN rides : rides[r].rider = u /\ HistoryFilter(rides[r])}

InDriverHistory(u) ==
    {r \in DOMAIN rides : rides[r].driver = u /\ HistoryFilter(rides[r])}

\* C37: a ride that is in the history of a principal is in it after every
\* step, with the same status and the same driver.
C37_HistoryOnlyGrows ==
    [][\A u \in Users :
          \A r \in InRiderHistory(u) \cup InDriverHistory(u) :
             /\ r \in InRiderHistory(u) => r \in InRiderHistory(u)'
             /\ r \in InDriverHistory(u) => r \in InDriverHistory(u)'
             /\ rides'[r].status = rides[r].status
             /\ rides'[r].driver = rides[r].driver]_vars

\* C38: every ride in the history of a driver is COMPLETED, and a CANCELLED
\* ride has no driver.
C38_DriverHistoryCompleted ==
    /\ \A u \in Drivers : \A r \in InDriverHistory(u) :
           rides[r].status = "COMPLETED"
    /\ \A r \in DOMAIN rides :
           rides[r].status = "CANCELLED" => rides[r].driver = NULL
    /\ last.op = "driver_history"
          => \A i \in 1..Len(last.rows) : rides[last.rows[i]].status = "COMPLETED"

\* A driver's history is not empty while a CANCELLED ride is stored.
C38_Witness ==
    /\ last.op = "driver_history" /\ Len(last.rows) >= 1
    /\ \E r \in DOMAIN rides : rides[r].status = "CANCELLED"

====
